---- MODULE Spec2Model ----
(***************************************************************************)
(* Model of regolith's presentation adder,                                 *)
(* src/regolith/helpers/a_presentationhelper.py:                           *)
(* PresentationAdderHelper.construct_global_ctx and .db_updater.           *)
(*                                                                         *)
(* Strings are sequences of one-character strings, so that split, strip,   *)
(* casefold, slicing and str() are computed the way the code computes      *)
(* them.  The alphabet is ASCII.  A Python value that is None or empty is  *)
(* the empty sequence: the code only ever tests such values with "not".    *)
(***************************************************************************)
EXTENDS Integers, Sequences, FiniteSets, TLC

VARIABLES
    store,      \* rc.client: the documents of each collection, in store order
    pc,         \* position of each invocation inside the helper
    args,       \* the arguments an invocation was started with (never changed)
    rc,         \* the run control object, which db_updater mutates
    gtx,        \* gtx[rc.coll]: the snapshot read by construct_global_ctx
    wait_bool,  \* local of the retry loop
    jump,       \* local of the retry loop
    calLog,     \* results of the add_to_google_calendar calls, in call order
    authCalls,  \* number of google_cal_auth_flow calls
    key,        \* local key
    authors,    \* local authors
    pdoc,       \* local pdoc
    insertLog,  \* the insert_one calls made, in call order
    outcome,    \* how the invocation ended
    raced       \* a presentation was inserted under a snapshot that was stale

vars == <<store, pc, args, rc, gtx, wait_bool, jump, calLog, authCalls,
          key, authors, pdoc, insertLog, outcome, raced>>

(***************************************************************************)
(* Characters and strings                                                  *)
(***************************************************************************)
UpperChars == <<"A","B","C","D","E","F","G","H","I","J","K","L","M",
                "N","O","P","Q","R","S","T","U","V","W","X","Y","Z">>
LowerChars == <<"a","b","c","d","e","f","g","h","i","j","k","l","m",
                "n","o","p","q","r","s","t","u","v","w","x","y","z">>
DigitChars == <<"0","1","2","3","4","5","6","7","8","9">>

\* ASCII order of the characters the model uses: whitespace, "-", digits,
\* upper case, "_", lower case.
AsciiOrder == <<"\t", " ", "-">> \o DigitChars \o UpperChars \o <<"_">> \o LowerChars

Whitespace == {" ", "\t"}

IndexOf(c, t) == CHOOSE i \in 1..Len(t) : t[i] = c

IsIn(c, t) == \E i \in 1..Len(t) : t[i] = c

\* str.casefold() of one ASCII character
CaseFoldChar(c) == IF IsIn(c, UpperChars) THEN LowerChars[IndexOf(c, UpperChars)] ELSE c

\* str.casefold()
CaseFold(s) == [i \in 1..Len(s) |-> CaseFoldChar(s[i])]

\* s[:n]
Take(s, n) == SubSeq(s, 1, IF n < Len(s) THEN n ELSE Len(s))

\* s[n:]
Drop(s, n) == SubSeq(s, n + 1, Len(s))

RECURSIVE LStrip(_)
LStrip(s) == IF s # <<>> /\ Head(s) \in Whitespace THEN LStrip(Tail(s)) ELSE s

RECURSIVE RStrip(_)
RStrip(s) ==
    IF s # <<>> /\ s[Len(s)] \in Whitespace THEN RStrip(SubSeq(s, 1, Len(s) - 1)) ELSE s

\* str.strip()
Strip(s) == RStrip(LStrip(s))

\* length of the longest prefix of s without whitespace
RECURSIVE WordLen(_)
WordLen(s) == IF s = <<>> \/ Head(s) \in Whitespace THEN 0 ELSE 1 + WordLen(Tail(s))

\* str.split(): the maximal runs of non-whitespace characters, in order
RECURSIVE Split(_)
Split(s) ==
    LET t == LStrip(s)
    IN  IF t = <<>> THEN <<>>
        ELSE <<Take(t, WordLen(t))>> \o Split(Drop(t, WordLen(t)))

\* ''.join(parts)
RECURSIVE Join(_)
Join(parts) == IF parts = <<>> THEN <<>> ELSE Head(parts) \o Join(Tail(parts))

\* str(n) for a natural number n
RECURSIVE Str(_)
Str(n) == IF n < 10 THEN <<DigitChars[n + 1]>> ELSE Str(n \div 10) \o <<DigitChars[(n % 10) + 1]>>

\* "%02d" % n, as strftime('%m') prints a month
TwoDigits(n) == <<DigitChars[(n \div 10) + 1], DigitChars[(n % 10) + 1]>>

RECURSIVE StrLess(_, _)
\* s < t for Python strings
StrLess(s, t) ==
    IF t = <<>> THEN FALSE
    ELSE IF s = <<>> THEN TRUE
    ELSE IF Head(s) = Head(t) THEN StrLess(Tail(s), Tail(t))
    ELSE IndexOf(Head(s), AsciiOrder) < IndexOf(Head(t), AsciiOrder)

(***************************************************************************)
(* Dates: date_parser.parse(...).date()                                    *)
(***************************************************************************)
IsDigit(c) == IsIn(c, DigitChars)

DigitVal(c) == IndexOf(c, DigitChars) - 1

RECURSIVE Num(_)
\* int(s) for a string of digits
Num(s) == IF s = <<>> THEN 0 ELSE 10 * Num(SubSeq(s, 1, Len(s) - 1)) + DigitVal(s[Len(s)])

DaysInMonth(y, m) ==
    IF m \in {4, 6, 9, 11} THEN 30
    ELSE IF m # 2 THEN 31
    ELSE IF (y % 4 = 0 /\ y % 100 # 0) \/ y % 400 = 0 THEN 29 ELSE 28

IsIsoShape(s) ==
    /\ Len(s) = 10
    /\ s[5] = "-" /\ s[8] = "-"
    /\ \A i \in {1, 2, 3, 4, 6, 7, 9, 10} : IsDigit(s[i])

\* Whether the parser accepts s.  The model covers the date strings written
\* YYYY-MM-DD; every other string of the input sets is one the parser rejects.
DateOk(s) ==
    /\ IsIsoShape(s)
    /\ Num(SubSeq(s, 1, 4)) >= 1
    /\ Num(SubSeq(s, 6, 7)) \in 1..12
    /\ Num(SubSeq(s, 9, 10)) \in 1..DaysInMonth(Num(SubSeq(s, 1, 4)), Num(SubSeq(s, 6, 7)))

\* date_parser.parse(s).date() for a string the parser accepts
ParseDate(s) ==
    [year |-> Num(SubSeq(s, 1, 4)), month |-> Num(SubSeq(s, 6, 7)), day |-> Num(SubSeq(s, 9, 10))]

(***************************************************************************)
(* Key deriver, lines 158-167                                              *)
(***************************************************************************)
\* split_person = rc.person.strip().split()
SplitPerson(person) == Split(Strip(person))

\* name_key; split_person[0] raises IndexError when there is no token
NameKeyOk(person) == SplitPerson(person) # <<>>

NameKey(person) ==
    LET split_person == SplitPerson(person)
    IN  IF Len(split_person) >= 2
        THEN CaseFold(Take(split_person[1], 1)) \o CaseFold(Take(split_person[Len(split_person)], 1))
        ELSE CaseFold(Take(split_person[1], 2))

\* the f-string of line 165
DerivedKey(begin_date, name_key, place) ==
    Drop(Str(begin_date.year), 2) \o TwoDigits(begin_date.month) \o name_key
        \o <<"_">> \o Strip(Join(Split(CaseFold(place))))

\* key: the explicit id when one is given, else the derived key
ResolveKey(id, begin_date, name_key, place) ==
    IF id = <<>> THEN DerivedKey(begin_date, name_key, place) ELSE id

(***************************************************************************)
(* Duplicate guard, lines 169-173                                          *)
(***************************************************************************)
\* pdocl = list(filter(lambda doc: doc["_id"] == key, coll))
Pdocl(k, coll) == SelectSeq(coll, LAMBDA doc : doc._id = k)

\* a guard that tolerates one record with the key
IsDuplicateOffByOne(k, coll) == Len(Pdocl(k, coll)) > 1

IsDuplicate(k, coll) == Len(Pdocl(k, coll)) > 0

(***************************************************************************)
(* Record builder, lines 175-204                                           *)
(***************************************************************************)
\* dict.update
Update(d, new) == new @@ d

\* a builder that ignores the supplied authors
ResolveAuthorsIgnoresSupplied(r) == <<r.person>>

ResolveAuthors(r) == IF r.authors = <<>> THEN <<r.person>> ELSE r.authors

NotesFields(r) == IF r.notes # <<>> THEN [notes |-> r.notes] ELSE <<>>

WebinarFields(r) == IF r.webinar THEN [webinar |-> TRUE] ELSE <<>>

\* a builder that forgets colloquium
PlaceFieldsSeminarOnly(r) ==
    IF r.type \in {"seminar"}
    THEN [institution |-> r.place, department |-> r.name]
    ELSE [location |-> r.place, meeting_name |-> r.name]

PlaceFields(r) ==
    IF r.type \in {"seminar", "colloquium"}
    THEN [institution |-> r.place, department |-> r.name]
    ELSE [location |-> r.place, meeting_name |-> r.name]

BuildPdoc(r, k, auth, begin_date, end_date) ==
    LET d0 == <<>>
        d1 == Update(d0, [_id |-> k, abstract |-> r.abstract, authors |-> auth,
                          begin_date |-> begin_date, end_date |-> end_date])
        d2 == Update(d1, NotesFields(r))
        d3 == Update(d2, WebinarFields(r))
        d4 == Update(d3, PlaceFields(r))
    IN  Update(d4, [project |-> <<"all">>, status |-> r.status, title |-> r.title, type |-> r.type])

(***************************************************************************)
(* Collaborators                                                           *)
(***************************************************************************)
TARGET_COLL == "presentations"
EXPENSES_COLL == "expenses"

\* rc.databases of the configuration
Databases == <<[name |-> "main"]>>

RECURSIVE InsertSorted(_, _)
InsertSorted(doc, docs) ==
    IF docs = <<>> THEN <<doc>>
    ELSE IF StrLess(doc._id, Head(docs)._id) THEN <<doc>> \o docs
    ELSE <<Head(docs)>> \o InsertSorted(doc, Tail(docs))

RECURSIVE SortById(_)
\* sorted(docs, key=_id_key): stable, ascending by _id
SortById(docs) ==
    IF docs = <<>> THEN <<>>
    ELSE InsertSorted(docs[Len(docs)], SortById(SubSeq(docs, 1, Len(docs) - 1)))

\* all_docs_from_collection(rc.client, coll)
AllDocsFromCollection(st, coll) == st[coll]

\* the store after an acknowledged rc.client.insert_one(database, coll, doc)
InsertOne(st, coll, doc) == [st EXCEPT ![coll] = Append(@, doc)]

\* expense_constructor(key, begin_date, end_date, rc)
ExpenseConstructor(k, begin_date, end_date, r) ==
    [_id |-> k, begin_date |-> begin_date, end_date |-> end_date, payee |-> r.payee,
     purpose |-> r.purpose, where |-> r.where, status |-> r.status, business |-> r.business]

\* f"give {rc.type} presentation at {rc.name}, {rc.place}"
Purpose(r) == [give |-> r.type, at |-> r.name, place |-> r.place]

(***************************************************************************)
(* Input sets                                                              *)
(***************************************************************************)
Procs == {1, 2}

Jane == <<"J","a","n","e"," ","D","o","e">>
Cher == <<"C","h","e","r">>
Ann == <<" ","a","n","n"," ","B","e","e"," ","C","o","l","e"," ">>
Zed == <<"Z">>
Blank == <<" ","\t">>
Sb == <<"s","b","i","l","l">>

Mit == <<"M","I","T"," ","B","o","s","t","o","n">>
Nyc == <<" ","N","Y","\t","c","i","t","y"," ">>
Oslo == <<"o","s","l","o">>

May2023 == <<"2","0","2","3","-","0","5","-","1","0">>
Dec1999 == <<"1","9","9","9","-","1","2","-","0","1">>
Jan2005 == <<"2","0","0","5","-","0","1","-","3","1">>
May0987 == <<"0","9","8","7","-","0","5","-","1","0">>
Tbd == <<"t","b","d">>

MyId == <<"m","y","_","i","d">>
\* the key derived for Jane, May2023 and Mit
JaneKey == <<"2","3","0","5","j","d","_","m","i","t","b","o","s","t","o","n">>

\* an invocation that has not been started
NoArgs ==
    [name |-> "", place |-> <<>>, begin_date |-> <<>>, end_date |-> <<>>, title |-> "",
     abstract |-> "", person |-> <<>>, authors |-> <<>>, notes |-> <<>>, status |-> "",
     type |-> "", webinar |-> FALSE, no_expense |-> FALSE, database |-> "", id |-> <<>>,
     no_cal |-> FALSE, has_default_user_id |-> FALSE, default_user_id |-> <<>>]

ArgsOver(persons, defaults, places, dates, ids, types, flags, authorss, notess, no_cals) ==
    [name : {"APS"}, place : places, begin_date : dates, end_date : {May2023},
     title : {"tbd"}, abstract : {"tbd"}, person : persons, authors : authorss,
     notes : notess, status : {"accepted"}, type : types, webinar : flags,
     no_expense : flags, database : {""}, id : ids, no_cal : no_cals,
     has_default_user_id : defaults, default_user_id : {Sb}]

\* the invocations of Spec: every combination without the calendar, and the
\* combinations that decide the control flow with it
Inputs ==
    ArgsOver({<<>>, Jane, Cher}, BOOLEAN, {Mit}, {May2023, Tbd}, {<<>>, MyId},
             {"seminar", "colloquium", "invited"}, BOOLEAN, {<<>>, <<Cher, Jane>>},
             {<<>>, <<"bring poster">>}, {TRUE})
    \cup
    ArgsOver({<<>>, Jane}, BOOLEAN, {Mit}, {May2023}, {<<>>, MyId},
             {"invited"}, BOOLEAN, {<<>>}, {<<>>}, {FALSE})

\* the invocations of SpecRace
RaceInputs ==
    ArgsOver({Jane, Cher}, {TRUE}, {Mit}, {May2023}, {<<>>, MyId},
             {"invited"}, BOOLEAN, {<<>>}, {<<>>}, {TRUE})

\* the invocations of SpecKey
KeyInputs ==
    ArgsOver({<<>>, Jane, Cher, Ann, Zed, Blank}, {TRUE}, {Mit, Nyc, Oslo},
             {May2023, Dec1999, Jan2005, May0987}, {<<>>, MyId},
             {"seminar"}, {TRUE}, {<<>>}, {<<>>}, {TRUE})

\* a presentation added earlier
ExistingDoc(id) ==
    [_id |-> id, abstract |-> "tbd", authors |-> <<Jane>>,
     begin_date |-> ParseDate(May2023), end_date |-> ParseDate(May2023),
     location |-> Mit, meeting_name |-> "APS", project |-> <<"all">>,
     status |-> "accepted", title |-> "tbd", type |-> "invited"]

InitialStores ==
    { [presentations |-> <<>>, expenses |-> <<>>],
      [presentations |-> <<ExistingDoc(JaneKey)>>, expenses |-> <<>>],
      [presentations |-> <<ExistingDoc(MyId), ExistingDoc(JaneKey)>>, expenses |-> <<>>] }

(***************************************************************************)
(* State                                                                   *)
(***************************************************************************)
\* the attempt count the retry loop tests for, line 140
RetryCeiling == 60

\* the model stops counting retries here
MaxJump == 62

Init ==
    /\ store \in InitialStores
    /\ pc = [p \in Procs |-> "idle"]
    /\ args = [p \in Procs |-> NoArgs]
    /\ rc = [p \in Procs |-> NoArgs]
    /\ gtx = [p \in Procs |-> <<>>]
    /\ wait_bool = [p \in Procs |-> FALSE]
    /\ jump = [p \in Procs |-> 0]
    /\ calLog = [p \in Procs |-> <<>>]
    /\ authCalls = [p \in Procs |-> 0]
    /\ key = [p \in Procs |-> <<>>]
    /\ authors = [p \in Procs |-> <<>>]
    /\ pdoc = [p \in Procs |-> <<>>]
    /\ insertLog = [p \in Procs |-> <<>>]
    /\ outcome = [p \in Procs |-> "none"]
    /\ raced = FALSE

calVars == <<wait_bool, jump, calLog, authCalls>>
buildVars == <<key, authors, pdoc>>

(***************************************************************************)
(* construct_global_ctx, lines 109-124                                     *)
(***************************************************************************)
ResolveDatabase(a) == IF a.database = "" THEN Databases[1].name ELSE a.database

ConstructGlobalCtx(p, inputs) ==
    /\ pc[p] = "idle"
    /\ \E a \in inputs :
        /\ args' = [args EXCEPT ![p] = a]
        /\ rc' = [rc EXCEPT ![p] = Update(a, [coll |-> TARGET_COLL, database |-> ResolveDatabase(a)])]
    /\ gtx' = [gtx EXCEPT ![p] = SortById(AllDocsFromCollection(store, TARGET_COLL))]
    /\ pc' = [pc EXCEPT ![p] = "calendar"]
    /\ UNCHANGED <<store, calVars, buildVars, insertLog, outcome, raced>>

(***************************************************************************)
(* db_updater: the calendar notifier, lines 129-143                        *)
(***************************************************************************)
\* a loop that goes on to the ceiling after a success
LoopTestUntilCeiling(w, j) == ~w \/ j < RetryCeiling

\* the test of the while loop, line 140
LoopTest(w, j) == ~w \/ j = RetryCeiling

\* a notifier that is never run before the checks
AddToCalendarNever(p) ==
    /\ pc[p] = "calendar"
    /\ pc' = [pc EXCEPT ![p] = "build"]
    /\ UNCHANGED <<store, args, rc, gtx, calVars, buildVars, insertLog, outcome, raced>>

\* a notifier that does not look at rc.no_cal
AddToCalendarAlways(p) ==
    /\ pc[p] = "calendar"
    /\ \E cal_update_bool \in BOOLEAN :
        /\ calLog' = [calLog EXCEPT ![p] = Append(@, cal_update_bool)]
        /\ IF cal_update_bool
           THEN /\ pc' = [pc EXCEPT ![p] = "build"]
                /\ UNCHANGED <<wait_bool, jump, authCalls>>
           ELSE /\ authCalls' = [authCalls EXCEPT ![p] = @ + 1]
                /\ wait_bool' = [wait_bool EXCEPT ![p] = FALSE]
                /\ jump' = [jump EXCEPT ![p] = 0]
                /\ pc' = [pc EXCEPT ![p] = "retry"]
    /\ UNCHANGED <<store, args, rc, gtx, buildVars, insertLog, outcome, raced>>

\* lines 129-139: the first add_to_google_calendar call, and on failure the
\* authentication flow and the loop's initialisation
AddToCalendar(p) ==
    /\ pc[p] = "calendar"
    /\ IF rc[p].no_cal
       THEN /\ pc' = [pc EXCEPT ![p] = "build"]
            /\ UNCHANGED calVars
       ELSE \E cal_update_bool \in BOOLEAN :
            /\ calLog' = [calLog EXCEPT ![p] = Append(@, cal_update_bool)]
            /\ IF cal_update_bool
               THEN /\ pc' = [pc EXCEPT ![p] = "build"]
                    /\ UNCHANGED <<wait_bool, jump, authCalls>>
               ELSE /\ authCalls' = [authCalls EXCEPT ![p] = @ + 1]
                    /\ wait_bool' = [wait_bool EXCEPT ![p] = FALSE]
                    /\ jump' = [jump EXCEPT ![p] = 0]
                    /\ pc' = [pc EXCEPT ![p] = "retry"]
    /\ UNCHANGED <<store, args, rc, gtx, buildVars, insertLog, outcome, raced>>

\* lines 140-143: one pass of the loop body, then the loop test
Retry(p) ==
    /\ pc[p] = "retry"
    /\ LoopTest(wait_bool[p], jump[p])
    /\ jump[p] < MaxJump
    /\ \E result \in BOOLEAN :
        /\ calLog' = [calLog EXCEPT ![p] = Append(@, result)]
        /\ wait_bool' = [wait_bool EXCEPT ![p] = result]
        /\ jump' = [jump EXCEPT ![p] = @ + 1]
        /\ pc' = [pc EXCEPT ![p] = IF LoopTest(result, jump[p] + 1) THEN "retry" ELSE "build"]
    /\ UNCHANGED <<store, args, rc, gtx, authCalls, buildVars, insertLog, outcome, raced>>

(***************************************************************************)
(* db_updater: dates, presenter, key, guard and record, lines 146-204      *)
(***************************************************************************)
\* rc.person after lines 150-157
ResolvePerson(r) == IF r.person = <<>> THEN r.default_user_id ELSE r.person

\* lines 146-173 without the guard of lines 169-173
AbortWithoutGuard(r, coll) ==
    IF ~DateOk(r.begin_date) \/ ~DateOk(r.end_date) THEN "parse_error"
    ELSE IF r.person = <<>> /\ ~r.has_default_user_id THEN "no_person"
    ELSE IF ~NameKeyOk(ResolvePerson(r)) THEN "index_error"
    ELSE ""

\* lines 146-173 without the presenter check of lines 150-157
AbortWithoutPersonCheck(r, coll) ==
    IF ~DateOk(r.begin_date) \/ ~DateOk(r.end_date) THEN "parse_error"
    ELSE IF ~NameKeyOk(ResolvePerson(r)) THEN "index_error"
    ELSE IF IsDuplicate(ResolveKey(r.id, ParseDate(r.begin_date), NameKey(ResolvePerson(r)), r.place), coll)
         THEN "duplicate"
    ELSE ""

\* how lines 146-173 end: "" when they reach the record builder
Abort(r, coll) ==
    IF ~DateOk(r.begin_date) \/ ~DateOk(r.end_date) THEN "parse_error"
    ELSE IF r.person = <<>> /\ ~r.has_default_user_id THEN "no_person"
    ELSE IF ~NameKeyOk(ResolvePerson(r)) THEN "index_error"
    ELSE IF IsDuplicate(ResolveKey(r.id, ParseDate(r.begin_date), NameKey(ResolvePerson(r)), r.place), coll)
         THEN "duplicate"
    ELSE ""

\* a builder that runs after the expense's status has been written to rc
RcBuiltWithExpenseStatus(r) ==
    [r EXCEPT !.person = ResolvePerson(r),
              !.no_expense = IF r.webinar THEN TRUE ELSE @,
              !.status = IF r.webinar \/ r.no_expense THEN @ ELSE "unsubmitted"]

\* a builder that leaves no_expense as given
RcBuiltKeepsExpense(r) == [r EXCEPT !.person = ResolvePerson(r)]

\* rc after lines 150-152 and 191-192
RcBuilt(r) ==
    [r EXCEPT !.person = ResolvePerson(r),
              !.no_expense = IF r.webinar THEN TRUE ELSE @]

Build(p) ==
    /\ pc[p] = "build"
    /\ LET r == rc[p]
           why == Abort(r, gtx[p])
       IN  IF why # ""
           THEN /\ outcome' = [outcome EXCEPT ![p] = why]
                /\ pc' = [pc EXCEPT ![p] = "raised"]
                /\ rc' = [rc EXCEPT ![p] = IF why \in {"parse_error", "no_person"}
                                           THEN @ ELSE [@ EXCEPT !.person = ResolvePerson(r)]]
                /\ key' = [key EXCEPT ![p] = IF why = "duplicate"
                       THEN ResolveKey(r.id, ParseDate(r.begin_date), NameKey(ResolvePerson(r)), r.place)
                       ELSE @]
                /\ UNCHANGED <<authors, pdoc>>
           ELSE LET begin_date == ParseDate(r.begin_date)
                    end_date == ParseDate(r.end_date)
                    r2 == RcBuilt(r)
                    k == ResolveKey(r.id, begin_date, NameKey(r2.person), r.place)
                    auth == ResolveAuthors(r2)
                IN  /\ rc' = [rc EXCEPT ![p] = r2]
                    /\ key' = [key EXCEPT ![p] = k]
                    /\ authors' = [authors EXCEPT ![p] = auth]
                    /\ pdoc' = [pdoc EXCEPT ![p] = BuildPdoc(r2, k, auth, begin_date, end_date)]
                    /\ pc' = [pc EXCEPT ![p] = "insert"]
                    /\ UNCHANGED outcome
    /\ UNCHANGED <<store, args, gtx, calVars, insertLog, raced>>

(***************************************************************************)
(* db_updater: persistence, lines 206-219                                  *)
(***************************************************************************)
\* one insert_one call, and whether the store acknowledged it
Call(r, coll, doc, ack) ==
    [database |-> r.database, coll |-> coll, id |-> doc._id, doc |-> doc, ack |-> ack]

\* a helper that never adds the expense
AfterPresentationNoExpense(r) == "done"

\* line 209: what follows an acknowledged presentation insert
AfterPresentation(r) == IF ~r.no_expense THEN "expense" ELSE "done"

\* line 206, and the test of line 209; insert_one acknowledges or raises
InsertPresentation(p) ==
    /\ pc[p] = "insert"
    /\ \E ack \in BOOLEAN :
        /\ insertLog' = [insertLog EXCEPT ![p] = Append(@, Call(rc[p], rc[p].coll, pdoc[p], ack))]
        /\ IF ack
           THEN /\ store' = InsertOne(store, rc[p].coll, pdoc[p])
                /\ raced' = (raced \/ Len(store[rc[p].coll]) # Len(gtx[p]))
                /\ pc' = [pc EXCEPT ![p] = AfterPresentation(rc[p])]
                /\ outcome' = [outcome EXCEPT ![p] = IF AfterPresentation(rc[p]) = "done" THEN "ok" ELSE @]
           ELSE /\ pc' = [pc EXCEPT ![p] = "raised"]
                /\ outcome' = [outcome EXCEPT ![p] = "insert_error"]
                /\ UNCHANGED <<store, raced>>
    /\ UNCHANGED <<args, rc, gtx, calVars, buildVars>>

\* rc after lines 210-214
RcExpense(r, auth) ==
    Update(r, [business |-> FALSE, payee |-> auth[1], purpose |-> Purpose(r),
               where |-> "tbd", status |-> "unsubmitted"])

\* an expense branch that swallows the store's error
InsertExpenseSwallowsError(p) ==
    /\ pc[p] = "expense"
    /\ LET r2 == RcExpense(rc[p], authors[p])
           edoc == ExpenseConstructor(key[p], pdoc[p].begin_date, pdoc[p].end_date, r2)
       IN  /\ rc' = [rc EXCEPT ![p] = r2]
           /\ \E ack \in BOOLEAN :
               /\ insertLog' = [insertLog EXCEPT ![p] = Append(@, Call(r2, EXPENSES_COLL, edoc, ack))]
               /\ store' = IF ack THEN InsertOne(store, EXPENSES_COLL, edoc) ELSE store
               /\ pc' = [pc EXCEPT ![p] = "done"]
               /\ outcome' = [outcome EXCEPT ![p] = "ok"]
    /\ UNCHANGED <<args, gtx, calVars, buildVars, raced>>

\* an expense branch that takes the presentation back when the store
\* rejects the expense
InsertExpenseRollsBack(p) ==
    /\ pc[p] = "expense"
    /\ LET r2 == RcExpense(rc[p], authors[p])
           edoc == ExpenseConstructor(key[p], pdoc[p].begin_date, pdoc[p].end_date, r2)
       IN  /\ rc' = [rc EXCEPT ![p] = r2]
           /\ \E ack \in BOOLEAN :
               /\ insertLog' = [insertLog EXCEPT ![p] = Append(@, Call(r2, EXPENSES_COLL, edoc, ack))]
               /\ IF ack
                  THEN /\ store' = InsertOne(store, EXPENSES_COLL, edoc)
                       /\ pc' = [pc EXCEPT ![p] = "done"]
                       /\ outcome' = [outcome EXCEPT ![p] = "ok"]
                  ELSE /\ pc' = [pc EXCEPT ![p] = "raised"]
                       /\ outcome' = [outcome EXCEPT ![p] = "insert_error"]
                       /\ store' = [store EXCEPT ![TARGET_COLL] =
                                        SelectSeq(@, LAMBDA doc : doc._id # key[p])]
    /\ UNCHANGED <<args, gtx, calVars, buildVars, raced>>

\* lines 210-219
InsertExpense(p) ==
    /\ pc[p] = "expense"
    /\ LET r2 == RcExpense(rc[p], authors[p])
           edoc == ExpenseConstructor(key[p], pdoc[p].begin_date, pdoc[p].end_date, r2)
       IN  /\ rc' = [rc EXCEPT ![p] = r2]
           /\ \E ack \in BOOLEAN :
               /\ insertLog' = [insertLog EXCEPT ![p] = Append(@, Call(r2, EXPENSES_COLL, edoc, ack))]
               /\ IF ack
                  THEN /\ store' = InsertOne(store, EXPENSES_COLL, edoc)
                       /\ pc' = [pc EXCEPT ![p] = "done"]
                       /\ outcome' = [outcome EXCEPT ![p] = "ok"]
                  ELSE /\ pc' = [pc EXCEPT ![p] = "raised"]
                       /\ outcome' = [outcome EXCEPT ![p] = "insert_error"]
                       /\ UNCHANGED store
    /\ UNCHANGED <<args, gtx, calVars, buildVars, raced>>

(***************************************************************************)
(* Specifications                                                          *)
(***************************************************************************)
\* one invocation, against each of the initial stores
Next ==
    \/ ConstructGlobalCtx(1, Inputs)
    \/ AddToCalendar(1)
    \/ Retry(1)
    \/ Build(1)
    \/ InsertPresentation(1)
    \/ InsertExpense(1)

Spec == Init /\ [][Next]_vars

\* two invocations, interleaved at the collaborator calls
NextRace ==
    \E p \in Procs :
        \/ ConstructGlobalCtx(p, RaceInputs)
        \/ AddToCalendar(p)
        \/ Build(p)
        \/ InsertPresentation(p)
        \/ InsertExpense(p)

SpecRace == Init /\ [][NextRace]_vars

\* one invocation over the inputs of the key deriver
NextKey ==
    \/ ConstructGlobalCtx(1, KeyInputs)
    \/ AddToCalendar(1)
    \/ Build(1)
    \/ InsertPresentation(1)

SpecKey == Init /\ [][NextKey]_vars

(***************************************************************************)
(* Properties                                                              *)
(***************************************************************************)
Terminated(p) == pc[p] \in {"done", "raised"}

\* the record builder has run: pdoc, key and authors hold what it built
Built(p) == pc[p] \in {"insert", "expense", "done"} \/ outcome[p] = "insert_error"

Colls(log) == [i \in 1..Len(log) |-> log[i].coll]

Acked(log) == SelectSeq(log, LAMBDA c : c.ack)

IdsOf(docs) == {docs[i]._id : i \in 1..Len(docs)}

\* C1: once the calendar's first call has failed, the retry loop ends when
\* the attempt counter reaches 60 whatever the calls return: the counter
\* never passes about 60 (here: 61) and the invocation goes on to the key.
C1_RetryLoopIsBounded == \A p \in Procs : jump[p] <= RetryCeiling + 1

\* the key an invocation is about: the explicit id, else the derived key
\* when the begin date and the presenter allow one to be derived
HasKey(a) ==
    \/ a.id # <<>>
    \/ /\ DateOk(a.begin_date)
       /\ a.person # <<>> \/ a.has_default_user_id
       /\ NameKeyOk(ResolvePerson(a))

KeyOf(a) ==
    IF a.id # <<>> THEN a.id
    ELSE DerivedKey(ParseDate(a.begin_date), NameKey(ResolvePerson(a)), a.place)

KeyInSnapshot(p) == pc[p] # "idle" /\ HasKey(args[p]) /\ KeyOf(args[p]) \in IdsOf(gtx[p])

\* the checks of lines 146-162, which come before the guard, all pass
ReachesGuard(a) ==
    /\ DateOk(a.begin_date) /\ DateOk(a.end_date)
    /\ a.person # <<>> \/ a.has_default_user_id
    /\ NameKeyOk(ResolvePerson(a))

\* C2 as claimed: an invocation whose key is the id of a record of its
\* snapshot ends with the duplicate error and makes no insert_one call,
\* whatever the other inputs are (stated here for the inputs whose dates
\* the parser accepts).
C2_DuplicateErrorForEveryInput ==
    \A p \in Procs :
        /\ Terminated(p) /\ KeyInSnapshot(p)
        /\ DateOk(args[p].begin_date) /\ DateOk(args[p].end_date)
        => outcome[p] = "duplicate" /\ insertLog[p] = <<>>

\* C2 as amended: an invocation whose key is the id of a record of its
\* snapshot makes no insert_one call and ends with an error; the error is
\* the duplicate error when the dates parse and a presenter with at least
\* one token is resolved, and otherwise the error of the failing check.
C2_DuplicateKeyNeverInserts ==
    \A p \in Procs :
        KeyInSnapshot(p) =>
            /\ insertLog[p] = <<>>
            /\ pc[p] # "done"
            /\ Terminated(p) =>
                /\ outcome[p] \in {"duplicate", "parse_error", "no_person", "index_error"}
                /\ ReachesGuard(args[p]) <=> outcome[p] = "duplicate"

C2_Witness ==
    /\ pc[1] = "raised" /\ outcome[1] = "duplicate" /\ insertLog[1] = <<>>
    /\ args[1].id = <<>> /\ key[1] = JaneKey /\ ~args[1].no_cal
    /\ Len(calLog[1]) = 2

\* C3: a successful invocation with no_expense false and webinar false makes
\* exactly two insert_one calls, the presentation into presentations and then
\* the expense with the same key into expenses; at no moment has the expense
\* been inserted first or a collection been written twice.
C3_PresentationThenExpense ==
    \A p \in Procs :
        ~args[p].no_expense /\ ~args[p].webinar =>
            /\ Colls(insertLog[p]) \in {<<>>, <<TARGET_COLL>>, <<TARGET_COLL, EXPENSES_COLL>>}
            /\ outcome[p] = "ok" =>
                /\ Colls(insertLog[p]) = <<TARGET_COLL, EXPENSES_COLL>>
                /\ insertLog[p][1].id = key[p] /\ insertLog[p][2].id = key[p]
                /\ insertLog[p][1].ack /\ insertLog[p][2].ack
                /\ store[TARGET_COLL][Len(store[TARGET_COLL])] = pdoc[p]
                /\ store[EXPENSES_COLL][Len(store[EXPENSES_COLL])]._id = key[p]

C3_Witness ==
    /\ outcome[1] = "ok" /\ ~args[1].no_expense /\ ~args[1].webinar
    /\ Len(insertLog[1]) = 2 /\ Len(store[EXPENSES_COLL]) = 1

\* C4: with the webinar flag the expense is suppressed whatever no_expense
\* was: the record holds webinar = TRUE, the only insert_one call is the
\* presentation's and no expense is stored.  Without the flag the record has
\* no webinar field.
C4_WebinarForcesNoExpense ==
    \A p \in Procs :
        /\ Built(p) /\ args[p].webinar =>
            /\ rc[p].no_expense
            /\ "webinar" \in DOMAIN pdoc[p] /\ pdoc[p].webinar = TRUE
            /\ Colls(insertLog[p]) \in {<<>>, <<TARGET_COLL>>}
            /\ key[p] \notin IdsOf(store[EXPENSES_COLL])
            /\ pc[p] = "done" => Colls(insertLog[p]) = <<TARGET_COLL>> /\ pdoc[p] = store[TARGET_COLL][Len(store[TARGET_COLL])]
        /\ Built(p) /\ ~args[p].webinar =>
            /\ "webinar" \notin DOMAIN pdoc[p]
            /\ rc[p].no_expense = args[p].no_expense

C4_Witness ==
    /\ pc[1] = "done" /\ args[1].webinar /\ ~args[1].no_expense
    /\ Len(insertLog[1]) = 1 /\ store[EXPENSES_COLL] = <<>>

UniqueIds(docs) == \A i, j \in 1..Len(docs) : docs[i]._id = docs[j]._id => i = j

HasWritten(p, coll) == \E i \in 1..Len(insertLog[p]) : insertLog[p][i].ack /\ insertLog[p][i].coll = coll

\* C5 as claimed: no reachable state of the store holds two presentations
\* with the same id, also when two invocations with the same key each read
\* their snapshot before the other inserts.
C5_IdsAlwaysUnique == UniqueIds(store[TARGET_COLL])

\* C5 as amended: a presentation is inserted only under a key that is not an
\* id of the inserting invocation's snapshot, and the ids of the collection
\* are unique as long as every insert was made into a collection unchanged
\* since the inserting invocation read its snapshot.
C5_IdsUniqueUnderFreshSnapshots ==
    /\ \A p \in Procs : HasWritten(p, TARGET_COLL) => key[p] \notin IdsOf(gtx[p])
    /\ ~raced => UniqueIds(store[TARGET_COLL])

C5_Witness ==
    /\ ~raced /\ gtx[1] = <<>>
    /\ outcome[1] = "ok" /\ outcome[2] = "duplicate" /\ key[1] = key[2]
    /\ IdsOf(store[TARGET_COLL]) = {key[1]}

\* C6: after a failed first create_event the authentication flow has been
\* called exactly once, and never when the first call succeeded; when the
\* first retry succeeds the notifier has left the loop after two
\* create_event calls, far from the ceiling of 60.
C6_ReauthOnceThenStop ==
    \A p \in Procs :
        /\ calLog[p] = <<>> => authCalls[p] = 0
        /\ calLog[p] # <<>> /\ calLog[p][1] => authCalls[p] = 0 /\ Len(calLog[p]) = 1
        /\ calLog[p] # <<>> /\ ~calLog[p][1] => authCalls[p] = 1
        /\ Len(calLog[p]) >= 2 /\ ~calLog[p][1] /\ calLog[p][2] =>
            /\ Len(calLog[p]) = 2
            /\ pc[p] # "retry"
            /\ jump[p] = 1 /\ jump[p] < RetryCeiling

C6_Witness ==
    /\ pc[1] = "done" /\ calLog[1] = <<FALSE, TRUE>> /\ authCalls[1] = 1

\* C7: without a presenter and without a configured default_user_id the
\* invocation never calls insert_one and persists nothing, and it ends with
\* the missing-presenter error (or, with a date the parser rejects, with the
\* parser's error, which is raised first).
C7_NoPresenterNothingPersisted ==
    \A p \in Procs :
        pc[p] # "idle" /\ args[p].person = <<>> /\ ~args[p].has_default_user_id =>
            /\ insertLog[p] = <<>>
            /\ pc[p] \in {"calendar", "retry", "build", "raised"}
            /\ gtx[p] = SortById(store[TARGET_COLL])
            /\ Terminated(p) =>
                outcome[p] = IF DateOk(args[p].begin_date) /\ DateOk(args[p].end_date)
                             THEN "no_person" ELSE "parse_error"

C7_Witness ==
    /\ pc[1] = "raised" /\ outcome[1] = "no_person" /\ insertLog[1] = <<>>
    /\ args[1].person = <<>> /\ ~args[1].has_default_user_id /\ args[1].id = <<>>

Writes(p) == Colls(Acked(insertLog[p]))

AllOrNothing(p) ==
    \/ Writes(p) = <<>> /\ pc[p] = "raised"
    \/ Writes(p) = <<TARGET_COLL>> /\ rc[p].no_expense /\ pc[p] = "done"
    \/ Writes(p) = <<TARGET_COLL, EXPENSES_COLL>> /\ ~rc[p].no_expense /\ pc[p] = "done"

\* C8 as claimed: a terminated invocation has made all its writes (both, or
\* the presentation alone when the expense is suppressed) or none; also when
\* an insert_one call fails no invocation ends with the presentation alone
\* written and the expense not suppressed.
C8_AllWritesOrNone == \A p \in Procs : Terminated(p) => AllOrNothing(p)

\* C8 as amended: a terminated invocation has made all its writes or none,
\* except that an invocation whose expense insert_one fails ends with the
\* presentation alone written: that is the only such terminal state.
C8_AllWritesOrNoneUnlessExpenseFails ==
    \A p \in Procs :
        Terminated(p) =>
            \/ AllOrNothing(p)
            \/ /\ Writes(p) = <<TARGET_COLL>> /\ ~rc[p].no_expense
               /\ pc[p] = "raised" /\ outcome[p] = "insert_error"
               /\ Colls(insertLog[p]) = <<TARGET_COLL, EXPENSES_COLL>>
               /\ ~insertLog[p][2].ack

C8_Witness ==
    /\ pc[1] = "raised" /\ outcome[1] = "insert_error" /\ Writes(1) = <<TARGET_COLL>>
    /\ Len(insertLog[1]) = 2 /\ key[1] \in IdsOf(store[TARGET_COLL])

\* the reference key YY ++ MM ++ initials ++ "_" ++ place'
RefFirstChars(person) ==
    LET starts == {i \in 1..Len(person) :
                      person[i] \notin Whitespace /\ (i = 1 \/ person[i - 1] \in Whitespace)}
        first == CHOOSE i \in starts : \A j \in starts : i <= j
        last == CHOOSE i \in starts : \A j \in starts : j <= i
    IN  IF Cardinality(starts) >= 2
        THEN <<CaseFoldChar(person[first]), CaseFoldChar(person[last])>>
        ELSE IF first < Len(person) /\ person[first + 1] \notin Whitespace
             THEN <<CaseFoldChar(person[first]), CaseFoldChar(person[first + 1])>>
             ELSE <<CaseFoldChar(person[first])>>

RefPlace(place) == CaseFold(SelectSeq(place, LAMBDA c : c \notin Whitespace))

RefKey(d, person, place) ==
    TwoDigits(d.year % 100) \o TwoDigits(d.month) \o RefFirstChars(person) \o <<"_">> \o RefPlace(place)

\* C9: without an explicit id the key is YY ++ MM ++ initials ++ "_" ++
\* place': the two-digit year and month of the begin date, the case-folded
\* first characters of the first and last token of the presenter (the first
\* two characters of a single token), and the case-folded place without its
\* whitespace.
C9_KeyIsReferenceKey ==
    \A p \in Procs :
        Built(p) /\ args[p].id = <<>> =>
            key[p] = RefKey(ParseDate(args[p].begin_date), ResolvePerson(args[p]), args[p].place)

\* the presentation an invocation has stored
Stored(p) == Pdocl(key[p], store[TARGET_COLL])

\* C10: the inserted presentation holds exactly one of the two pairs: for a
\* seminar or colloquium institution = place and department = name, without
\* location and meeting_name; for every other type location = place and
\* meeting_name = name, without institution and department.
C10_OnePairByType ==
    \A p \in Procs :
        HasWritten(p, TARGET_COLL) =>
            /\ Stored(p) = <<pdoc[p]>>
            /\ LET doc == Stored(p)[1]
                   home == {"institution", "department"}
                   away == {"location", "meeting_name"}
               IN  IF args[p].type \in {"seminar", "colloquium"}
                   THEN /\ home \subseteq DOMAIN doc /\ away \cap DOMAIN doc = {}
                        /\ doc.institution = args[p].place /\ doc.department = args[p].name
                   ELSE /\ away \subseteq DOMAIN doc /\ home \cap DOMAIN doc = {}
                        /\ doc.location = args[p].place /\ doc.meeting_name = args[p].name

C10_Witness ==
    /\ pc[1] = "done" /\ args[1].type = "colloquium" /\ HasWritten(1, TARGET_COLL)
    /\ "institution" \in DOMAIN store[TARGET_COLL][Len(store[TARGET_COLL])]

\* the expense an invocation has stored
StoredExpense(p) == Pdocl(key[p], store[EXPENSES_COLL])

\* the authors the arguments ask for
WantedAuthors(a) ==
    IF a.authors # <<>> THEN a.authors
    ELSE IF a.person # <<>> THEN <<a.person>> ELSE <<a.default_user_id>>

\* C11: the authors of the inserted presentation are the supplied list when
\* one is supplied, else the one-element list of the presenter (the given
\* person, or default_user_id without one); the payee of the companion
\* expense is the first element of that list.
C11_AuthorsAndPayee ==
    \A p \in Procs :
        /\ HasWritten(p, TARGET_COLL) =>
            /\ Len(Stored(p)) = 1
            /\ Stored(p)[1].authors = WantedAuthors(args[p])
        /\ HasWritten(p, EXPENSES_COLL) =>
            /\ Len(StoredExpense(p)) = 1
            /\ StoredExpense(p)[1].payee = WantedAuthors(args[p])[1]
            /\ StoredExpense(p)[1].payee = Stored(p)[1].authors[1]

C11_Witness ==
    /\ pc[1] = "done" /\ HasWritten(1, EXPENSES_COLL)
    /\ args[1].authors = <<Cher, Jane>> /\ args[1].person = <<>>
    /\ StoredExpense(1)[1].payee = Cher

\* the expense insert_one of the invocation was made and the store rejected
\* it, after the presentation insert was acknowledged
ExpenseInsertFailed(p) ==
    /\ Len(insertLog[p]) = 2
    /\ insertLog[p][1].coll = TARGET_COLL /\ insertLog[p][1].ack
    /\ insertLog[p][2].coll = EXPENSES_COLL /\ ~insertLog[p][2].ack

\* C12: when the presentation insert succeeded and the expense insert_one
\* fails, the presentation stays in the presentations collection as it was
\* inserted, no expense is stored, and the invocation ends with the store's
\* error.
C12_NoRollbackOnExpenseFailure ==
    \A p \in Procs :
        ExpenseInsertFailed(p) =>
            /\ pc[p] = "raised" /\ outcome[p] = "insert_error"
            /\ Stored(p) = <<insertLog[p][1].doc>>
            /\ StoredExpense(p) = <<>>

C12_Witness ==
    /\ ExpenseInsertFailed(1) /\ pc[1] = "raised"
    /\ args[1].id = MyId /\ Stored(1) = <<pdoc[1]>>
    /\ Len(store[TARGET_COLL]) = Len(gtx[1]) + 1

\* what the claim leaves the outcome of an invocation with an explicit id to
\* depend on: the dates, the presence of a presenter, the guard on the id
\* and the store's answers
ExplicitIdKeyUsed(p) ==
    /\ Built(p) => key[p] = args[p].id /\ pdoc[p]._id = args[p].id
    /\ \A i \in 1..Len(insertLog[p]) : insertLog[p][i].id = args[p].id
    /\ outcome[p] = "duplicate" => args[p].id \in IdsOf(gtx[p])
    /\ Built(p) => args[p].id \notin IdsOf(gtx[p])

\* C13: with an explicit id the key of the guard, of the presentation and of
\* the expense is the supplied id for every begin date, presenter and place,
\* and the outcome does not depend on the derivation of the initials or of
\* the place: the derivation never ends the invocation.
C13_ExplicitIdOverridesDerivation ==
    \A p \in Procs :
        pc[p] # "idle" /\ args[p].id # <<>> =>
            /\ ExplicitIdKeyUsed(p)
            /\ outcome[p] # "index_error"

\* rc as construct_global_ctx leaves it for the same arguments with the
\* calendar not suppressed
RcWithCalendar(a) ==
    Update([a EXCEPT !.no_cal = FALSE], [coll |-> TARGET_COLL, database |-> ResolveDatabase(a)])

\* C14: with no_cal set the notifier is skipped: create_event, the
\* authentication flow and the sleep of the retry loop are never called, and
\* the checks, the key, the record and the inserts are those of the same
\* arguments with the calendar not suppressed.
C14_NoCalSkipsNotifier ==
    \A p \in Procs :
        pc[p] # "idle" /\ args[p].no_cal =>
            /\ calLog[p] = <<>> /\ authCalls[p] = 0 /\ jump[p] = 0
            /\ pc[p] # "retry"
            /\ LET r == RcWithCalendar(args[p])
                   why == Abort(r, gtx[p])
               IN  /\ outcome[p] \in {"parse_error", "no_person", "index_error", "duplicate"}
                          => outcome[p] = why
                   /\ Built(p) =>
                       /\ why = ""
                       /\ key[p] = ResolveKey(r.id, ParseDate(r.begin_date), NameKey(ResolvePerson(r)), r.place)
                       /\ pdoc[p] = BuildPdoc(RcBuilt(r), key[p], ResolveAuthors(RcBuilt(r)),
                                              ParseDate(r.begin_date), ParseDate(r.end_date))
                       /\ rc[p].no_expense = RcBuilt(r).no_expense
                       /\ \A i \in 1..Len(insertLog[p]) : insertLog[p][i].id = key[p]

C14_Witness ==
    /\ pc[1] = "done" /\ args[1].no_cal /\ calLog[1] = <<>>
    /\ Colls(insertLog[1]) = <<TARGET_COLL, EXPENSES_COLL>>
    /\ args[1].type = "seminar" /\ args[1].notes # <<>>

\* C15: once a create_event call of an invocation has succeeded, on the
\* first call or on any retry, also the retry that brings the counter to 60,
\* the invocation makes no further create_event call: at most one call
\* succeeds.
C15_NoCallAfterSuccess ==
    \A p \in Procs :
        \A i \in 1..Len(calLog[p]) : calLog[p][i] => i = Len(calLog[p])

IsPrefix(s, t) == Len(s) <= Len(t) /\ SubSeq(t, 1, Len(s)) = s

InNotifier(p) == pc[p] \in {"calendar", "retry"}

\* while the notifier runs, nothing of lines 146-217 has happened; and an
\* invocation with the calendar not suppressed is past the notifier only
\* with a create_event call that succeeded
CalendarComesFirst(p) ==
    /\ InNotifier(p) =>
        /\ outcome[p] = "none" /\ key[p] = <<>> /\ pdoc[p] = <<>>
        /\ insertLog[p] = <<>>
        /\ rc[p].person = args[p].person
    /\ pc[p] \notin {"idle", "calendar", "retry"} /\ ~args[p].no_cal =>
        \E i \in 1..Len(calLog[p]) : calLog[p][i]

\* create_event is called only inside the notifier, and no step takes a
\* call, or the event it created, back
CalendarNeverUndone(p) ==
    /\ IsPrefix(calLog[p], calLog'[p])
    /\ calLog'[p] # calLog[p] => InNotifier(p)

\* C16: with the calendar not suppressed, create_event and its retry loop
\* come before the date parsing, the presenter check and the guard, so an
\* invocation that aborts with the missing-presenter or the duplicate error
\* without any insert has created a calendar event, and no later step of
\* db_updater undoes it.
C16_CalendarBeforeChecks ==
    /\ [](\A p \in Procs : CalendarComesFirst(p))
    /\ [][\A p \in Procs : CalendarNeverUndone(p)]_vars

C16_Witness ==
    /\ pc[1] = "raised" /\ outcome[1] = "no_person" /\ insertLog[1] = <<>>
    /\ ~args[1].no_cal /\ calLog[1] = <<FALSE, FALSE, TRUE>>
    /\ store[TARGET_COLL] = <<>>

\* the expense branch of lines 210-216 has run
ExpenseBranchRan(p) == Len(insertLog[p]) = 2 /\ insertLog[p][2].coll = EXPENSES_COLL

\* C17: the expense branch does not change the presentation: after rc.status
\* has become "unsubmitted", and rc.payee, rc.purpose, rc.where and
\* rc.business are set, the stored presentation is still the record that
\* was inserted, with the status given as input.
C17_ExpenseLeavesPresentation ==
    \A p \in Procs :
        ExpenseBranchRan(p) =>
            /\ rc[p].status = "unsubmitted" /\ rc[p].where = "tbd" /\ rc[p].business = FALSE
            /\ rc[p].payee = authors[p][1] /\ "purpose" \in DOMAIN rc[p]
            /\ Stored(p) = <<insertLog[p][1].doc>>
            /\ pdoc[p] = insertLog[p][1].doc
            /\ Stored(p)[1].status = args[p].status
            /\ Stored(p)[1].status # rc[p].status

C17_Witness ==
    /\ pc[1] = "done" /\ ExpenseBranchRan(1) /\ insertLog[1][2].ack
    /\ rc[1].status = "unsubmitted" /\ Stored(1)[1].status = "accepted"
    /\ args[1].person = Cher /\ StoredExpense(1)[1].status = "unsubmitted"

====
